---- MODULE Spec2Model ----
(***************************************************************************)
(* Monocular visual odometry script Slam_v1.py: the CameraPoses class      *)
(* (get_matches, get_pose, decomp_essential_mat_old) and the module-level  *)
(* frame loop that integrates the relative transforms into cur_pose.       *)
(*                                                                         *)
(* Numbers.  numpy float64 values are modelled as integers: the finite     *)
(* values are -FMax..FMax, and PInf, NInf and NaN are three values outside *)
(* that range.  Arithmetic is exact inside the range and overflows to an   *)
(* infinity outside it, with the IEEE-754 rules for inf and nan.           *)
(* Magnitudes.  decomposeEssentialMat returns rotations and a unit         *)
(* direction; the only other factor of a relative transform is the        *)
(* relative scale, a mean of ratios of distances between the same          *)
(* triangulated points seen from the two cameras, which is nan or inf when *)
(* a distance is zero and otherwise small against the float64 range.  The  *)
(* finite relative scales drawn here are 1 and 2, and FMax is far above    *)
(* any sum of MaxFrames such translations, as 1.8e308 is in the program.   *)
(* Indices are 1-based here and 0-based in the source.                     *)
(***************************************************************************)
EXTENDS Integers, Sequences, FiniteSets, TLC

\* ------------------------------------------------------------------ bounds
\* Largest finite magnitude of the modelled floating-point type.
FMax == 16
\* Longest video (number of frames the capture can deliver).
MaxFrames == 4
\* Keypoints beyond the gate of get_matches, for the inputs of get_matches alone.
MaxExtraKp == 1
\* Largest cheirality count of one candidate, for the inputs of the decomposition alone.
MaxZ == 2

\* ------------------------------------------------------- program constants
\* get_matches: len(kp1) > 6 and len(kp2) > 6
MinKeypoints == 6
\* main loop: len(q1) > 20 and len(q2) > 20
MinMatches == 20
\* skip_frames = 2
skip_frames == 2
\* take_every_th_camera_pose = 2
take_every_th_camera_pose == 2

\* ------------------------------------------------------------ float64 model
PInf == FMax + 1
NInf == 0 - (FMax + 1)
NaN == FMax + 2

isnan(x) == x = NaN
isinf(x) == x = PInf \/ x = NInf
isfinite(x) == ~isnan(x) /\ ~isinf(x)

\* Rounding of an exact result to the type: out of range overflows to an infinity.
Round(r) == IF r > FMax THEN PInf ELSE IF r < 0 - FMax THEN NInf ELSE r

Sign(x) == IF x > 0 THEN 1 ELSE IF x < 0 THEN 0 - 1 ELSE 0

FMul(a, b) ==
    IF isnan(a) \/ isnan(b) THEN NaN
    ELSE IF isinf(a) \/ isinf(b)
         THEN IF a = 0 \/ b = 0 THEN NaN
              ELSE IF Sign(a) * Sign(b) > 0 THEN PInf ELSE NInf
         ELSE Round(a * b)

FAdd(a, b) ==
    IF isnan(a) \/ isnan(b) THEN NaN
    ELSE IF isinf(a) /\ isinf(b) THEN (IF a = b THEN a ELSE NaN)
    ELSE IF isinf(a) THEN a
    ELSE IF isinf(b) THEN b
    ELSE Round(a + b)

FNeg(a) == IF isnan(a) THEN NaN ELSE 0 - a

\* ----------------------------------------------------------------- matrices
\* A matrix is a sequence of rows; a vector is a sequence of numbers.
RECURSIVE DotFrom(_, _, _)
DotFrom(u, v, k) ==
    IF k > Len(u) THEN 0
    ELSE IF k = Len(u) THEN FMul(u[k], v[k])
    ELSE FAdd(FMul(u[k], v[k]), DotFrom(u, v, k + 1))

Col(M, j) == [i \in 1..Len(M) |-> M[i][j]]

\* numpy's A @ B: every product enters the sum, a zero factor included.
MatMul(A, B) ==
    [i \in 1..Len(A) |-> [j \in 1..Len(B[1]) |-> DotFrom(A[i], Col(B, j), 1)]]

AnyNonFiniteVec(v) == \E i \in 1..Len(v) : ~isfinite(v[i])
\* np.any(np.isnan(M)) or np.any(np.isinf(M))
AnyNonFinite(M) == \E i \in 1..Len(M) : AnyNonFiniteVec(M[i])

eye3 == << <<1, 0, 0>>, <<0, 1, 0>>, <<0, 0, 1>> >>
eye4 == << <<1, 0, 0, 0>>, <<0, 1, 0, 0>>, <<0, 0, 1, 0>>, <<0, 0, 0, 1>> >>

\* start_pose = concatenate((identity(3), zeros((3,1))), axis=1): a 3x4 matrix.
start_pose == [i \in 1..3 |-> eye3[i] \o <<0>>]

\* T = eye(4); T[:3,:3] = R; T[:3,3] = t
form_transf(R, t) == [i \in 1..4 |-> IF i <= 3 THEN R[i] \o <<t[i]>> ELSE eye4[4]]

\* t * relative_scale and -t on a 3-vector
ScaleVec(t, s) == [i \in 1..Len(t) |-> FMul(t[i], s)]
NegVec(t) == [i \in 1..Len(t) |-> FNeg(t[i])]

\* ------------------------------------------------------- frames, keypoints
\* A frame is the image array cap.read() returned: id is its position in the
\* capture, hud tells whether the loop has drawn its text on the array, and nkp is
\* the number of keypoints ORB finds in the array as it is now (detectAndCompute
\* is a function of the pixels).
Frame(i, n, h) == [id |-> i, nkp |-> n, hud |-> h]
\* old_frame = None / the frame of a failed cap.read()
NoFrame == Frame(0, 0, FALSE)

\* kp, des = orb.detectAndCompute(img, None): keypoint i of a frame has its own
\* pixel position .pt, written <<frame, i>>.
detectAndCompute(img) == [i \in 1..img.nkp |-> <<img.id, i>>]

\* A point sequence returned by get_matches, or None.
None == [some |-> FALSE, pts |-> <<>>]
Some(s) == [some |-> TRUE, pts |-> s]

\* cv2.DMatch
DMatch(q, t, d) == [queryIdx |-> q, trainIdx |-> t, distance |-> d]

\* ---------------------------------------------------------------- get_matches
\* m.distance < 0.5 * n.distance (scaling by two is exact in binary floating point)
RatioTest(m, n) == 2 * m.distance < n.distance

\* The loop "for m, n in matches" inside the try: unpacking a tuple that does not
\* hold exactly two matches raises ValueError, which the except clause around the
\* whole loop swallows: the loop ends there.
RECURSIVE GoodMatchesFrom(_, _)
GoodMatchesFrom(matches, i) ==
    IF i > Len(matches) THEN <<>>
    ELSE IF Len(matches[i]) # 2 THEN <<>>
    ELSE (IF RatioTest(matches[i][1], matches[i][2]) THEN <<matches[i][1]>> ELSE <<>>)
         \o GoodMatchesFrom(matches, i + 1)

\* The keypoint gate of get_matches.
EnoughKeypointsAlt(kp1, kp2) == Len(kp1) > MinKeypoints \/ Len(kp2) > MinKeypoints
EnoughKeypoints(kp1, kp2) == Len(kp1) > MinKeypoints /\ Len(kp2) > MinKeypoints

\* get_matches(img1, img2), with the result of flann.knnMatch(des1, des2, k=2) as
\* an input: one tuple of at most two DMatch per descriptor of img1.
get_matches(img1, img2, matches) ==
    LET kp1 == detectAndCompute(img1)
        kp2 == detectAndCompute(img2)
        good_matches == GoodMatchesFrom(matches, 1)
    IN  IF EnoughKeypoints(kp1, kp2)
        THEN << Some([k \in 1..Len(good_matches) |-> kp1[good_matches[k].queryIdx]]),
                Some([k \in 1..Len(good_matches) |-> kp2[good_matches[k].trainIdx]]) >>
        ELSE << None, None >>

\* --------------------------------------------------- decomp_essential_mat_old
\* np.argmax: the index of the first occurrence of the maximum.
RECURSIVE ArgMaxFrom(_, _, _)
ArgMaxFrom(s, i, best) ==
    IF i > Len(s) THEN best
    ELSE ArgMaxFrom(s, i + 1, IF s[i] > s[best] THEN i ELSE best)

RECURSIVE ArgMaxLastFrom(_, _, _)
ArgMaxLastFrom(s, i, best) ==
    IF i > Len(s) THEN best
    ELSE ArgMaxLastFrom(s, i + 1, IF s[i] >= s[best] THEN i ELSE best)

argmaxAlt(s) == ArgMaxLastFrom(s, 2, 1)
argmax(s) == ArgMaxFrom(s, 2, 1)

\* pairs = [[R1, t], [R1, -t], [R2, t], [R2, -t]]
pairs(R1, R2, t) ==
    << [R |-> R1, t |-> t], [R |-> R1, t |-> NegVec(t)],
       [R |-> R2, t |-> t], [R |-> R2, t |-> NegVec(t)] >>

\* cv2.triangulatePoints(P, P, q1.T, q2.T) with P = [K|0] T, normalised: one 3D
\* point per correspondence, a function of the transform and of the points.
Triangulate(T, q1, q2) == [T |-> T, n |-> Len(q1.pts)]

\* decomp_essential_mat_old(E, q1, q2).  d holds what the OpenCV calls return for
\* E, q1, q2: R1, R2, t of decomposeEssentialMat, and for each of the four pairs
\* the z_sum and the relative scale of sum_z_cal_relative_scale.  The result holds
\* the returned [R1, t] and the Q1 appended to world_points.
decomp_essential_mat_old(d, q1, q2) ==
    LET right_pair_idx == argmax(d.z_sums)
        right_pair == pairs(d.R1, d.R2, d.t)[right_pair_idx]
        relative_scale == d.relative_scales[right_pair_idx]
        t == ScaleVec(right_pair.t, relative_scale)
        T == form_transf(right_pair.R, t)
    IN  [R |-> right_pair.R, t |-> t, Q1 |-> Triangulate(T, q1, q2)]

\* -------------------------------------------------------------------- get_pose
NoDiag == ""
DiagE == "Error: Essential matrix contains NaN or Inf values"
DiagR == "Error: Rotation matrix contains NaN or Inf values"
DiagT == "Error: Translation vector contains NaN or Inf values"
DiagTransf == "Error: Transformation matrix contains NaN or Inf values"

\* The finite check of get_pose on t.
BadTranslation(t) == AnyNonFiniteVec(t)

\* return np.eye(4)  # Return identity matrix for invalid pose
invalid_poseAlt == [i \in 1..4 |-> [j \in 1..4 |-> 0]]
invalid_pose == eye4

\* get_pose with the essential-matrix check alone.
get_poseAlt(E, d, q1, q2, wp) ==
    IF AnyNonFinite(E)
    THEN [transf |-> invalid_pose, diag |-> DiagE, world_points |-> wp]
    ELSE LET r == decomp_essential_mat_old(d, q1, q2)
         IN  [transf |-> form_transf(r.R, r.t), diag |-> NoDiag,
              world_points |-> Append(wp, r.Q1)]

\* get_pose(q1, q2), with E of cv2.findEssentialMat and d as above as inputs, and
\* self.world_points as wp.  The result holds the returned matrix, the diagnostic
\* printed, and self.world_points after the call.
get_pose(E, d, q1, q2, wp) ==
    IF AnyNonFinite(E)
    THEN [transf |-> invalid_pose, diag |-> DiagE, world_points |-> wp]
    ELSE LET r == decomp_essential_mat_old(d, q1, q2)
             wp2 == Append(wp, r.Q1)
             transformation_matrix == form_transf(r.R, r.t)
         IN  IF AnyNonFinite(r.R)
             THEN [transf |-> invalid_pose, diag |-> DiagR, world_points |-> wp2]
             ELSE IF BadTranslation(r.t)
             THEN [transf |-> invalid_pose, diag |-> DiagT, world_points |-> wp2]
             ELSE IF AnyNonFinite(transformation_matrix)
             THEN [transf |-> invalid_pose, diag |-> DiagTransf, world_points |-> wp2]
             ELSE [transf |-> transformation_matrix, diag |-> NoDiag,
                   world_points |-> wp2]

\* ------------------------------------------------------------------- state
VARIABLES
    cap_pos,          \* number of frames cap.read() has delivered
    key,              \* the key event waiting for cv2.waitKey ("" when none)
    pc,               \* position of the script
    process_frames, old_frame, new_frame, frame_counter,
    q1, q2,           \* result of the last get_matches call
    transf,           \* result of the last get_pose call
    diag,             \* diagnostic printed by the last get_pose call
    cur_pose, camera_pose_list, estimated_path,
    world_points,     \* vo.world_points
    path_array,       \* the array line 279 builds from estimated_path[::2]
    matches,          \* get_matches: the k-NN result of the call under way
    dec,              \* decomp_essential_mat_old: what OpenCV returned to the call
    Rt                \* decomp_essential_mat_old: the returned [R1, t]

vars == << cap_pos, key, pc, process_frames, old_frame, new_frame,
           frame_counter, q1, q2, transf, diag, cur_pose, camera_pose_list,
           estimated_path, world_points, path_array, matches, dec, Rt >>

loopVars == << process_frames, old_frame, new_frame, frame_counter >>
poseVars == << cur_pose, camera_pose_list, estimated_path, world_points >>
callVars == << matches, dec, Rt >>

\* ------------------------------------------------------------ inputs (main)
\* Keypoint counts of a frame: at the gate of get_matches, and enough for more
\* than MinMatches correspondences.
KpCounts == {MinKeypoints, MinMatches + 1}

\* k-NN results for n1 query descriptors against n2 train descriptors: the first
\* `good` queries pass the ratio test and the others fail it; with `short` in
\* 1..n1, that query has a single neighbour.
Knn(n1, n2, good, short) ==
    [i \in 1..n1 |->
        IF i = short THEN << DMatch(i, ((i - 1) % n2) + 1, 1) >>
        ELSE << DMatch(i, ((i - 1) % n2) + 1, IF i <= good THEN 1 ELSE 2),
                DMatch(i, (i % n2) + 1, 3) >>]

KnnResults(img1, img2) ==
    LET n == IF img1.nkp <= img2.nkp THEN img1.nkp ELSE img2.nkp
    IN  { Knn(img1.nkp, img2.nkp, g, s) : g \in {n - 1, n}, s \in {0, 1, n} }

RotY == << <<0, 0, 1>>, <<0, 1, 0>>, <<0 - 1, 0, 0>> >>
RotNaN == [i \in 1..3 |-> [j \in 1..3 |-> NaN]]
ex == <<1, 0, 0>>

EFinite == << <<0, 0 - 1, 0>>, <<1, 0, 0>>, <<0, 0, 0>> >>
EWithNaN == << <<0, 0 - 1, 0>>, <<1, NaN, 0>>, <<0, 0, 0>> >>
EWithInf == << <<0, 0 - 1, 0>>, <<1, 0, 0>>, <<0, NInf, 0>> >>
EssentialMats == {EFinite, EWithNaN, EWithInf}

\* What OpenCV may return to decomp_essential_mat_old in the frame loop: the
\* first or the third candidate wins, with a relative scale of 1, 2, nan or inf;
\* and one decomposition whose winning rotation is not finite.
DecompInputs ==
    [R1 : {eye3}, R2 : {RotY}, t : {ex},
     z_sums : { <<2, 2, 1, 0>>, <<0, 0, 1, 1>> },
     relative_scales : { <<1, 1, 1, 1>>, <<2, 2, 2, 2>>, <<NaN, 1, PInf, 1>> }]
    \cup { [R1 |-> eye3, R2 |-> RotNaN, t |-> ex, z_sums |-> <<0, 0, 1, 1>>,
            relative_scales |-> <<1, 1, 1, 1>>] }

NoDec == [R1 |-> eye3, R2 |-> eye3, t |-> ex, z_sums |-> <<0, 0, 0, 0>>,
          relative_scales |-> <<1, 1, 1, 1>>]

\* -------------------------------------------------------------------- Init
Init ==
    /\ cap_pos = 0
    /\ key = ""
    /\ pc = "read"
    /\ process_frames = FALSE
    /\ old_frame = NoFrame
    /\ new_frame = NoFrame
    /\ frame_counter = 0
    /\ q1 = None
    /\ q2 = None
    /\ transf = <<>>
    /\ diag = NoDiag
    /\ cur_pose = start_pose
    /\ camera_pose_list = <<>>
    /\ estimated_path = <<>>
    /\ world_points = <<>>
    /\ path_array = <<>>
    /\ matches = <<>>
    /\ dec = NoDec
    /\ Rt = <<>>

\* ----------------------------------------------------------------- actions
\* ret, new_frame = cap.read(); if not ret: break; frame_counter += 1
\* The capture delivers its next frame, or has none left (ret is False and the
\* frame None).
ReadFrame ==
    /\ pc = "read"
    /\ \/ /\ cap_pos < MaxFrames
          /\ \E n \in KpCounts : new_frame' = Frame(cap_pos + 1, n, FALSE)
          /\ cap_pos' = cap_pos + 1
          /\ frame_counter' = frame_counter + 1
          /\ pc' = IF process_frames THEN "match" ELSE "advance"
       \/ /\ new_frame' = NoFrame
          /\ pc' = "done"
          /\ UNCHANGED << cap_pos, frame_counter >>
    /\ UNCHANGED << key, process_frames, old_frame, q1, q2, transf, diag,
                    poseVars, path_array, callVars >>

\* q1, q2 = vo.get_matches(old_frame, new_frame)
Match ==
    /\ pc = "match"
    /\ \E m \in KnnResults(old_frame, new_frame) :
          LET r == get_matches(old_frame, new_frame, m)
          IN  q1' = r[1] /\ q2' = r[2]
    /\ pc' = "gate"
    /\ UNCHANGED << cap_pos, key, loopVars, transf, diag, poseVars,
                    path_array, callVars >>

\* if q1 is not None: if len(q1) > 20 and len(q2) > 20:
PoseAttemptedAlt(a, b) == a.some /\ Len(a.pts) >= MinMatches /\ Len(b.pts) >= MinMatches
PoseAttempted(a, b) == a.some /\ Len(a.pts) > MinMatches /\ Len(b.pts) > MinMatches

Gate ==
    /\ pc = "gate"
    /\ pc' = IF PoseAttempted(q1, q2) THEN "pose" ELSE "record"
    /\ UNCHANGED << cap_pos, key, loopVars, q1, q2, transf, diag, poseVars,
                    path_array, callVars >>

\* transf = vo.get_pose(q1, q2)
Pose ==
    /\ pc = "pose"
    /\ \E E \in EssentialMats, d \in DecompInputs :
          LET r == get_pose(E, d, q1, q2, world_points)
          IN  /\ transf' = r.transf
              /\ diag' = r.diag
              /\ world_points' = r.world_points
    /\ pc' = "compose"
    /\ UNCHANGED << cap_pos, key, loopVars, q1, q2, cur_pose,
                    camera_pose_list, estimated_path, path_array, callVars >>

\* cur_pose = cur_pose @ transf
Compose ==
    /\ pc = "compose"
    /\ cur_pose' = MatMul(cur_pose, transf)
    /\ pc' = "record"
    /\ UNCHANGED << cap_pos, key, loopVars, q1, q2, transf, diag,
                    camera_pose_list, estimated_path, world_points, path_array,
                    callVars >>

\* hom_camera_pose = concatenate((cur_pose, [[0,0,0,1]])); the two appends
Record ==
    /\ pc = "record"
    /\ camera_pose_list' = Append(camera_pose_list, cur_pose \o << eye4[4] >>)
    /\ estimated_path' = Append(estimated_path, << cur_pose[1][4], cur_pose[3][4] >>)
    /\ pc' = "advance"
    /\ UNCHANGED << cap_pos, key, loopVars, q1, q2, transf, diag, cur_pose,
                    world_points, path_array, callVars >>

\* The frame that becomes old_frame at the end of an iteration.
NextOldFrameAlt(old, new, a) == IF a.some THEN new ELSE old
NextOldFrame(old, new, a) == new

\* old_frame = new_frame; process_frames = True
Advance ==
    /\ pc = "advance"
    /\ old_frame' = NextOldFrame(old_frame, new_frame, q1)
    /\ process_frames' = TRUE
    /\ pc' = "display"
    /\ UNCHANGED << cap_pos, key, new_frame, frame_counter, q1, q2, transf,
                    diag, poseVars, path_array, callVars >>

\* cv2.putText(new_frame, ...) thirteen times; cv2.imshow("img", new_frame).
\* The text is drawn into the array that old_frame names too, so the frame the
\* next get_matches receives as img1 carries it, with whatever keypoints it then
\* has.
Display ==
    /\ pc = "display"
    /\ \E n \in KpCounts :
          /\ new_frame' = Frame(new_frame.id, n, TRUE)
          /\ old_frame' = IF old_frame.id = new_frame.id
                          THEN Frame(new_frame.id, n, TRUE) ELSE old_frame
    /\ pc' = "waitkey"
    /\ UNCHANGED << cap_pos, key, process_frames, frame_counter, q1, q2, transf,
                    diag, poseVars, path_array, callVars >>

\* Where the script goes after cv2.waitKey(25) returned k ("" when no key).
AfterWaitKeyAlt(k) == "read"
AfterWaitKey(k) == IF k = "q" THEN "done" ELSE "read"

\* if cv2.waitKey(25) & 0xFF == ord('q'): break
WaitKey ==
    /\ pc = "waitkey"
    /\ pc' = AfterWaitKey(key)
    /\ key' = ""
    /\ UNCHANGED << cap_pos, loopVars, q1, q2, transf, diag, poseVars,
                    path_array, callVars >>

\* The user presses 'q' while the loop runs: the event waits for waitKey.
PressKey ==
    /\ pc \notin {"done", "plotted", "crashed"}
    /\ key = ""
    /\ key' = "q"
    /\ UNCHANGED << cap_pos, pc, loopVars, q1, q2, transf, diag, poseVars,
                    path_array, callVars >>

\* estimated_path[::take_every_th_camera_pose]
RECURSIVE EveryNth(_, _, _)
EveryNth(s, i, n) ==
    IF i > Len(s) THEN <<>> ELSE << s[i] >> \o EveryNth(s, i + n, n)

\* After the loop: the camera plot indexes camera_pose_poses[0], which raises
\* IndexError on an empty list; otherwise line 279 builds a new array from every
\* second entry of estimated_path.  The lists the loop filled are only read.
Plot ==
    /\ pc = "done"
    /\ IF camera_pose_list = <<>>
       THEN pc' = "crashed" /\ UNCHANGED path_array
       ELSE /\ path_array' = EveryNth(estimated_path, 1, take_every_th_camera_pose)
            /\ pc' = "plotted"
    /\ UNCHANGED << cap_pos, key, loopVars, q1, q2, transf, diag, poseVars,
                    callVars >>

Next ==
    \/ ReadFrame
    \/ Match
    \/ Gate
    \/ Pose
    \/ Compose
    \/ Record
    \/ Advance
    \/ Display
    \/ WaitKey
    \/ PressKey
    \/ Plot

Spec == Init /\ [][Next]_vars

\* ------------------------------------------------------------- properties
LoopOver == pc \in {"done", "plotted", "crashed"}
EndOfStream == LoopOver /\ new_frame = NoFrame
LastOr(s, dflt) == IF Len(s) = 0 THEN dflt ELSE s[Len(s)]
IsPrefix(s, t) == Len(s) <= Len(t) /\ SubSeq(t, 1, Len(s)) = s
PoseFinite == ~AnyNonFinite(cur_pose)
TrajectoryFinite ==
    /\ \A i \in 1..Len(camera_pose_list) : ~AnyNonFinite(camera_pose_list[i])
    /\ \A i \in 1..Len(estimated_path) : ~AnyNonFiniteVec(estimated_path[i])

\* C2: a pair in which either image has 6 or fewer keypoints gets (None, None) from
\* get_matches; from there to the next read the script goes gate, record, advance,
\* display, waitkey without changing cur_pose or world_points and without failing, and
\* unless 'q' is waiting the next step after waitkey is the read of the next frame.
C2_FewKeypointsPairIsNoOp ==
    [][ /\ (pc = "match" /\ pc' # pc
              /\ (old_frame.nkp <= MinKeypoints \/ new_frame.nkp <= MinKeypoints))
           => (q1' = None /\ q2' = None /\ pc' = "gate")
        /\ (q1 = None /\ pc \in {"gate", "record", "advance", "display", "waitkey"})
           => /\ cur_pose' = cur_pose
              /\ world_points' = world_points
              /\ pc' # "crashed"
              /\ pc' # pc =>
                   pc' = CASE pc = "gate" -> "record"
                           [] pc = "record" -> "advance"
                           [] pc = "advance" -> "display"
                           [] pc = "display" -> "waitkey"
                           [] OTHER -> IF key = "q" THEN "done" ELSE "read"
      ]_vars

\* C2 witness: a pair with too few keypoints has been processed after an earlier
\* pair had moved the pose and filled world_points.
C2_Witness ==
    /\ pc = "advance" /\ process_frames /\ q1 = None
    /\ (old_frame.nkp <= MinKeypoints \/ new_frame.nkp <= MinKeypoints)
    /\ Len(world_points) >= 1 /\ cur_pose # start_pose
    /\ Len(camera_pose_list) >= 2

\* C5: get_pose is called for a pair exactly when get_matches returned point
\* sequences and both hold more than 20 points; cur_pose and world_points change
\* only in the get_pose call and the composition that follows it, so a pair with
\* 20 or fewer correspondences leaves them alone and the script goes on to record.
C5_PoseAttemptedIffEnoughMatches ==
    [][ /\ (pc = "gate" /\ pc' # pc)
           => /\ (pc' = "pose") <=>
                   (q1 # None /\ q2 # None /\ Len(q1.pts) > MinMatches
                                            /\ Len(q2.pts) > MinMatches)
              /\ pc' \in {"pose", "record"}
        /\ (pc' = "pose" /\ pc # "pose") => pc = "gate"
        /\ (cur_pose' # cur_pose) => (pc = "compose")
        /\ (world_points' # world_points) => (pc = "pose")
        /\ (pc' = "compose" /\ pc # "compose") => pc = "pose"
      ]_vars

\* C5 witness: a pair with exactly 20 correspondences has been skipped after an
\* earlier pair went through get_pose.
C5_Witness ==
    /\ pc = "record" /\ q1.some /\ Len(q1.pts) = MinMatches
    /\ Len(world_points) >= 1 /\ Len(camera_pose_list) >= 1

C9_PairsInCaptureOrder ==
    [][ /\ (pc' = "match")
           => /\ frame_counter' >= 2
              /\ frame_counter' = cap_pos'
              /\ old_frame'.id = frame_counter' - 1
              /\ new_frame'.id = frame_counter'
        /\ (pc' = "match" /\ pc # "match") => frame_counter' = frame_counter + 1
        /\ frame_counter' \in {frame_counter, frame_counter + 1}
      ]_vars

\* C9 witness: the third pair is about to be matched after the second pair was
\* skipped.
C9_Witness ==
    /\ pc = "match" /\ frame_counter = 4 /\ q1 = None /\ Len(world_points) >= 1

\* _load_images(filepath, skip_frames): image_paths[::skip_frames], the readable
\* ones.  The frame loop never calls it.
load_images(image_paths, skip) ==
    SelectSeq(EveryNth(image_paths, 1, skip), LAMBDA img : img # NoFrame)

\* C1: when get_pose printed a diagnostic for a pair, the composition that follows
\* leaves cur_pose as it was, and no entry of cur_pose, camera_pose_list or
\* estimated_path is ever NaN or infinite.
C1_DegenerateIsNoOpAndPoseFinite ==
    [][ /\ (pc = "compose" /\ pc' = "record" /\ diag # NoDiag) => cur_pose' = cur_pose
        /\ PoseFinite'
        /\ TrajectoryFinite'
      ]_vars

\* C1 witness: a pair whose scaled translation was not finite has been composed
\* after an earlier pair had moved the pose.
C1_Witness ==
    /\ pc = "record" /\ diag = DiagT /\ transf = invalid_pose
    /\ cur_pose # start_pose /\ Len(camera_pose_list) >= 1
    /\ camera_pose_list[Len(camera_pose_list)] = cur_pose \o << eye4[4] >>

\* C3: a get_pose call appends exactly one entry to world_points when it returns a
\* relative transform and none when it ends in a diagnostic; nothing else changes
\* world_points, and the entries already there stay as they are.
C3_WorldPointsGrowOnSuccessOnly ==
    [][ /\ IsPrefix(world_points, world_points')
        /\ (pc = "pose" /\ pc' = "compose")
           => Len(world_points') = Len(world_points) + (IF diag' = NoDiag THEN 1 ELSE 0)
        /\ (pc # "pose") => world_points' = world_points
      ]_vars

\* C4: when a video of cap_pos frames has been read to its end, the frames that
\* went through the loop are those a stride of skip_frames selects (as many as
\* _load_images keeps of them), and one pair was processed for each of them but
\* the first.
C4_StrideSubsamplesFrames ==
    EndOfStream =>
        /\ frame_counter = Len(load_images([i \in 1..cap_pos |-> Frame(i, 0, FALSE)],
                                           skip_frames))
        /\ Len(camera_pose_list) = (IF frame_counter = 0 THEN 0 ELSE frame_counter - 1)

\* C10: once a frame has been handled, camera_pose_list and estimated_path hold one
\* entry per pair (frame_counter - 1), and the entry recorded for a pair that was
\* skipped or ended in a diagnostic equals the entry before it (the start pose for
\* the first pair).
C10_TrajectoryHoldsLastPose ==
    [][ /\ (pc' \in {"waitkey", "read"} /\ frame_counter' >= 1)
           => /\ Len(camera_pose_list') = frame_counter' - 1
              /\ Len(estimated_path') = frame_counter' - 1
        /\ (pc = "record" /\ pc' = "advance"
              /\ (~PoseAttempted(q1, q2) \/ diag # NoDiag))
           => /\ LastOr(camera_pose_list', <<>>)
                   = LastOr(camera_pose_list, start_pose \o << eye4[4] >>)
              /\ LastOr(estimated_path', <<>>)
                   = LastOr(estimated_path, << start_pose[1][4], start_pose[3][4] >>)
      ]_vars

\* C10 witness: the entry of a pair that ended in a diagnostic has been recorded
\* and repeats the entry before it, which is not the start pose.
C10_Witness ==
    /\ pc = "advance" /\ diag # NoDiag /\ PoseAttempted(q1, q2)
    /\ Len(camera_pose_list) >= 2
    /\ camera_pose_list[Len(camera_pose_list)] = camera_pose_list[Len(camera_pose_list) - 1]
    /\ estimated_path[Len(estimated_path)] # << 0, 0 >>

\* ------------------------------------------------ get_matches on its own
\* Keypoint counts around the gate of get_matches.
GateKpCounts == MinKeypoints..(MinKeypoints + MaxExtraKp)

\* What knnMatch(k=2) may return for query descriptor i against n2 train
\* descriptors: no neighbour, one neighbour, or two with the best at distance d.
QueryResults(i, n2) ==
    { <<>>, << DMatch(i, ((i - 1) % n2) + 1, 1) >> }
    \cup { << DMatch(i, ((i - 1) % n2) + 1, d), DMatch(i, (i % n2) + 1, 2) >> :
             d \in {0, 1, 2} }

RECURSIVE KnnLists(_, _)
KnnLists(n1, n2) ==
    IF n1 = 0 THEN { <<>> }
    ELSE { Append(l, r) : l \in KnnLists(n1 - 1, n2), r \in QueryResults(n1, n2) }

InitMatch ==
    /\ cap_pos = 2 /\ key = "" /\ pc = "get_matches"
    /\ process_frames = TRUE /\ frame_counter = 2
    /\ \E n1 \in GateKpCounts, n2 \in GateKpCounts :
          /\ old_frame = Frame(1, n1, TRUE)
          /\ new_frame = Frame(2, n2, FALSE)
          /\ IF n1 > MinKeypoints /\ n2 > MinKeypoints
             THEN matches \in KnnLists(n1, n2)
             ELSE matches = <<>>
    /\ q1 = None /\ q2 = None /\ transf = <<>> /\ diag = NoDiag
    /\ cur_pose = start_pose /\ camera_pose_list = <<>> /\ estimated_path = <<>>
    /\ world_points = <<>> /\ path_array = <<>> /\ dec = NoDec /\ Rt = <<>>

\* One call get_matches(old_frame, new_frame) whose knnMatch returns `matches`.
GetMatchesCall ==
    /\ pc = "get_matches"
    /\ LET r == get_matches(old_frame, new_frame, matches)
       IN  q1' = r[1] /\ q2' = r[2]
    /\ pc' = "get_matches_ret"
    /\ UNCHANGED << cap_pos, key, loopVars, transf, diag, poseVars,
                    path_array, callVars >>

NextMatch == GetMatchesCall

SpecMatch == InitMatch /\ [][NextMatch]_vars

\* The queries of a k-NN result that have two neighbours and pass the ratio test,
\* in query order.
AcceptedQueries(ms) ==
    SelectSeq([i \in 1..Len(ms) |-> i],
              LAMBDA i : Len(ms[i]) = 2 /\ 2 * ms[i][1].distance < ms[i][2].distance)

\* C6: when matching went ahead, q1 and q2 have one point per query that has two
\* neighbours and passes the ratio test, in query order, q1 holding the query's
\* keypoint of the first image and q2 its best neighbour's keypoint of the second;
\* a query without a second neighbour is left out and changes nothing else.
C6_ShortQueriesDroppedAlone ==
    (pc = "get_matches_ret" /\ q1 # None)
    => LET acc == AcceptedQueries(matches)
       IN  /\ Len(q1.pts) = Len(acc)
           /\ Len(q2.pts) = Len(acc)
           /\ \A k \in 1..Len(acc) :
                 /\ q1.pts[k] = << old_frame.id, matches[acc[k]][1].queryIdx >>
                 /\ q2.pts[k] = << new_frame.id, matches[acc[k]][1].trainIdx >>

\* -------------------------------- decomp_essential_mat_old on its own
ez == <<0, 0, 1>>
ScaleVals == {1, 2, NaN, PInf}

\* 21 correspondences between frames 1 and 2.
SomePoints(f) == Some([i \in 1..(MinMatches + 1) |-> <<f, i>>])

InitDecomp ==
    /\ cap_pos = 2 /\ key = "" /\ pc = "decomp"
    /\ process_frames = TRUE /\ frame_counter = 2
    /\ old_frame = Frame(1, MinMatches + 1, TRUE)
    /\ new_frame = Frame(2, MinMatches + 1, FALSE)
    /\ q1 = SomePoints(1) /\ q2 = SomePoints(2) /\ transf = <<>> /\ diag = NoDiag
    /\ cur_pose = start_pose /\ camera_pose_list = <<>> /\ estimated_path = <<>>
    /\ world_points = <<>> /\ path_array = <<>> /\ matches = <<>> /\ Rt = <<>>
    /\ dec \in [R1 : {eye3, RotY}, R2 : {eye3, RotY}, t : {ex, ez},
                z_sums : [1..4 -> 0..MaxZ],
                relative_scales : [1..4 -> ScaleVals]]
    /\ dec.R1 # dec.R2

\* One call decomp_essential_mat_old(E, q1, q2) to which OpenCV returns `dec`.
DecompCall ==
    /\ pc = "decomp"
    /\ LET r == decomp_essential_mat_old(dec, q1, q2)
       IN  /\ Rt' = << r.R, r.t >>
           /\ world_points' = Append(world_points, r.Q1)
    /\ pc' = "decomp_ret"
    /\ UNCHANGED << cap_pos, key, loopVars, q1, q2, transf, diag, cur_pose,
                    camera_pose_list, estimated_path, path_array, matches, dec >>

NextDecomp == DecompCall

SpecDecomp == InitDecomp /\ [][NextDecomp]_vars

\* The four candidates in the order (R1, t), (R1, -t), (R2, t), (R2, -t).
CandR(d, i) == IF i <= 2 THEN d.R1 ELSE d.R2
CandSign(i) == IF i % 2 = 1 THEN 1 ELSE 0 - 1

\* C8: the returned rotation and translation are those of the first candidate, in
\* the order (R1, t), (R1, -t), (R2, t), (R2, -t), whose cheirality count is the
\* largest, the translation being that candidate's signed direction times the
\* relative scale computed for that candidate.
C8_MaxCheiralityFirstWins ==
    (pc = "decomp_ret")
    => \E i \in 1..4 :
          /\ \A j \in 1..4 : dec.z_sums[j] <= dec.z_sums[i]
          /\ \A j \in 1..(i - 1) : dec.z_sums[j] < dec.z_sums[i]
          /\ Rt[1] = CandR(dec, i)
          /\ Rt[2] = [k \in 1..3 |->
                        FMul(FMul(CandSign(i), dec.t[k]), dec.relative_scales[i])]

\* C8 witness: candidates 2 and 4 tie for the largest count with different scales,
\* and the call returned candidate 2, (R1, -t), scaled by its own scale.
C8_Witness ==
    /\ pc = "decomp_ret"
    /\ dec.z_sums = <<0, 2, 1, 2>>
    /\ dec.relative_scales = <<1, 2, 1, 1>>
    /\ dec.R1 = eye3 /\ dec.t = ex
    /\ Rt = << eye3, << 0 - 2, 0, 0 >> >>

====
